---------------------------- MODULE Spec2Model ----------------------------
(***************************************************************************)
(* sshminisig: conversion of an Armored SSH Signature into the compact     *)
(* sshminisig token (one prefix byte + unpadded base64url signature) and   *)
(* back.  Bytes are integers 0..255, byte strings and Go strings are       *)
(* sequences of bytes.  Go's int is taken to be 64 bits wide, so every     *)
(* uint32 converts to int without wrapping.                                *)
(***************************************************************************)
EXTENDS Integers, Sequences, FiniteSets, TLC

VARIABLES
    algsToPrefix,   \* the forward map  Algs -> prefix byte
    PrefixToAlgs,   \* the reverse table [256]Algs
    pending,        \* keys of algsToPrefix that init()'s range loop has yet to visit
    thr             \* the calls in progress, one record per goroutine

vars == <<algsToPrefix, PrefixToAlgs, pending, thr>>

Byte == 0..255

----------------------------------------------------------------------------
(* Bounds of the model *)

\* number of goroutines calling Encode / Decode concurrently
NumThreads == 2
\* longest signature-data string of a generated envelope
MaxSigLen == 2
\* longest public key / namespace / reserved field of a generated envelope
MaxSkipLen == 1
\* longest free-form token handed to Decode
MaxTokenLen == 3

----------------------------------------------------------------------------
(* Names and prefix bytes *)

\* "ssh-ed25519"
SigEd25519 == <<115, 115, 104, 45, 101, 100, 50, 53, 53, 49, 57>>
\* "rsa-sha2-256"
SigRSA256 == <<114, 115, 97, 45, 115, 104, 97, 50, 45, 50, 53, 54>>
\* "rsa-sha2-512"
SigRSA512 == <<114, 115, 97, 45, 115, 104, 97, 50, 45, 53, 49, 50>>
\* "ecdsa-sha2-nistp256"
SigECDSAP256 == <<101, 99, 100, 115, 97, 45, 115, 104, 97, 50, 45, 110, 105, 115, 116, 112, 50, 53, 54>>
\* "ecdsa-sha2-nistp384"
SigECDSAP384 == <<101, 99, 100, 115, 97, 45, 115, 104, 97, 50, 45, 110, 105, 115, 116, 112, 51, 56, 52>>
\* "ecdsa-sha2-nistp521"
SigECDSAP521 == <<101, 99, 100, 115, 97, 45, 115, 104, 97, 50, 45, 110, 105, 115, 116, 112, 53, 50, 49>>
\* "sk-ssh-ed25519@openssh.com"
SigSKEd25519 == <<115, 107, 45, 115, 115, 104, 45, 101, 100, 50, 53, 53, 49, 57, 64, 111, 112, 101, 110, 115, 115, 104, 46, 99, 111, 109>>
\* "sk-ecdsa-sha2-nistp256@openssh.com"
SigSKECDSA == <<115, 107, 45, 101, 99, 100, 115, 97, 45, 115, 104, 97, 50, 45, 110, 105, 115, 116, 112, 50, 53, 54, 64, 111, 112, 101, 110, 115, 115, 104, 46, 99, 111, 109>>
\* "ssh-rsa"
SigLegacyRSA == <<115, 115, 104, 45, 114, 115, 97>>

\* "sha256"
HashSHA256 == <<115, 104, 97, 50, 53, 54>>
\* "sha512"
HashSHA512 == <<115, 104, 97, 53, 49, 50>>

\* type Algs struct { Sig SigAlg; Hash HashAlg }
Algs(sig, hash) == [Sig |-> sig, Hash |-> hash]

\* the zero value Algs{}
ZeroAlgs == Algs(<<>>, <<>>)

\* 'e'
PrefixEd25519 == 101
\* 'r'
PrefixRSA256 == 114
\* 's'
PrefixRSA512 == 115
\* 'c'
PrefixECDSAP256 == 99
\* 'd'
PrefixECDSAP384 == 100
\* 'p'
PrefixECDSAP521 == 112
\* 'f'
PrefixSKEd25519 == 102
\* 'g'
PrefixSKECDSA == 103
\* '2'
PrefixLegacyRSA256 == 50
\* '2' written where '5' was meant
PrefixLegacyRSA512Clash == PrefixLegacyRSA256
\* '5'
PrefixLegacyRSA512 == 53
\* 'z'
PrefixReserved == 122

\* the composite literal of var algsToPrefix
algsToPrefixLiteral ==
    ( Algs(SigEd25519, HashSHA512)   :> PrefixEd25519
   @@ Algs(SigRSA256, HashSHA256)    :> PrefixRSA256
   @@ Algs(SigRSA512, HashSHA512)    :> PrefixRSA512
   @@ Algs(SigECDSAP256, HashSHA512) :> PrefixECDSAP256
   @@ Algs(SigECDSAP384, HashSHA512) :> PrefixECDSAP384
   @@ Algs(SigECDSAP521, HashSHA512) :> PrefixECDSAP521
   @@ Algs(SigSKEd25519, HashSHA512) :> PrefixSKEd25519
   @@ Algs(SigSKECDSA, HashSHA256)   :> PrefixSKECDSA
   @@ Algs(SigLegacyRSA, HashSHA256) :> PrefixLegacyRSA256
   @@ Algs(SigLegacyRSA, HashSHA512) :> PrefixLegacyRSA512 )

\* const maxArmoredSize = 8 * 1024
maxArmoredSize == 8 * 1024

----------------------------------------------------------------------------
(* Errors and results *)

NoErr == [msg |-> "nil", args |-> <<>>]
Err(msg) == [msg |-> msg, args |-> <<>>]
ErrArgs(msg, args) == [msg |-> msg, args |-> args]

\* a []byte value: nil, or a (possibly empty) byte sequence
NilBytes == [nil |-> TRUE, v |-> <<>>]
Bytes(v) == [nil |-> FALSE, v |-> v]

----------------------------------------------------------------------------
(* Slices of the signature blob.  A slice is a window [lo, hi) of the       *)
(* backing array, or nil; oob records an index expression outside the       *)
(* backing array, which panics in Go.                                       *)

NilSlice == [nil |-> TRUE, lo |-> 0, hi |-> 0]
Slice(lo, hi) == [nil |-> FALSE, lo |-> lo, hi |-> hi]

\* len(b)
len(b) == IF b.nil THEN 0 ELSE b.hi - b.lo

\* the bytes a slice shows
SliceBytes(mem, b) == IF b.nil THEN <<>> ELSE SubSeq(mem, b.lo + 1, b.hi)

\* binary.BigEndian.Uint32(b[:4]) as two 16-bit halves (the value is hi * 2^16 + lo)
Uint32(mem, b) ==
    [hi |-> mem[b.lo + 1] * 256 + mem[b.lo + 2],
     lo |-> mem[b.lo + 3] * 256 + mem[b.lo + 4]]

\* l < int(n) for a length l and a uint32 n
LessThanU32(l, n) ==
    \/ (l \div 65536) < n.hi
    \/ (l \div 65536) = n.hi /\ (l % 65536) < n.lo

\* readString with the declared length checked against len(b) before the four
\* length bytes are dropped instead of after
readStringChecksBeforeSkip(mem, b) ==
    IF len(b) < 4
    THEN [data |-> NilSlice, rest |-> NilSlice, oob |-> FALSE]
    ELSE LET n  == Uint32(mem, b)
             b4 == Slice(b.lo + 4, b.hi)
         IN  IF LessThanU32(len(b), n)
             THEN [data |-> NilSlice, rest |-> NilSlice, oob |-> FALSE]
             ELSE LET k == n.hi * 65536 + n.lo
                  IN  [data |-> Slice(b4.lo, b4.lo + k),
                       rest |-> Slice(b4.lo + k, b4.hi),
                       oob  |-> k > len(b4)]

\* readString reads an SSH-style string (uint32 length prefix + data).
\* oob: b[:n] / b[n:] evaluated with n > len(b), a run-time panic.
readString(mem, b) ==
    IF len(b) < 4
    THEN [data |-> NilSlice, rest |-> NilSlice, oob |-> FALSE]
    ELSE LET n  == Uint32(mem, b)
             b4 == Slice(b.lo + 4, b.hi)
         IN  IF LessThanU32(len(b4), n)
             THEN [data |-> NilSlice, rest |-> NilSlice, oob |-> FALSE]
             ELSE LET k == n.hi * 65536 + n.lo
                  IN  [data |-> Slice(b4.lo, b4.lo + k),
                       rest |-> Slice(b4.lo + k, b4.hi),
                       oob  |-> k > len(b4)]

\* the append left out: the signature data alone
appendNothing(mem, s, t) == [mem |-> mem, s |-> s]

\* append(s, t...): in place when cap(s), which reaches the end of the backing
\* array, has room (a memmove inside the array), else into a fresh array
append(mem, s, t) ==
    LET need == len(s) + len(t)
    IN  IF need <= Len(mem) - s.lo
        THEN LET mem2 == [i \in 1..Len(mem) |->
                            IF s.hi < i /\ i <= s.hi + len(t)
                            THEN mem[t.lo + (i - s.hi)]
                            ELSE mem[i]]
             IN  [mem |-> mem2, s |-> Slice(s.lo, s.lo + need)]
        ELSE [mem |-> SliceBytes(mem, s) \o SliceBytes(mem, t),
              s |-> Slice(0, need)]

\* "SSHSIG"
Magic == <<83, 83, 72, 83, 73, 71>>

ParseResult(sigAlg, hashAlg, sigData, err) ==
    [sigAlg |-> sigAlg, hashAlg |-> hashAlg, sigData |-> sigData, err |-> err]

ParseFail(msg) == ParseResult(<<>>, <<>>, NilBytes, Err(msg))

\* the goroutine panicked inside the parser: no value is returned
ParsePanic == ParseFail("panic: slice bounds out of range")

\* the tail of parseSignatureBlob, from "Read hash algorithm and signature blob"
parseHashAndSignature(blob, b) ==
    LET h  == readString(blob, b)
        sb == readString(blob, h.rest)
    IN  IF h.oob \/ sb.oob THEN ParsePanic
        ELSE IF sb.data.nil THEN ParseFail("invalid signature blob")
        ELSE LET a == readString(blob, sb.data)
                 d == readString(blob, a.rest)
             IN  IF a.oob \/ d.oob THEN ParsePanic
                 ELSE IF d.data.nil THEN ParseFail("invalid signature blob")
                 ELSE LET r == IF len(d.rest) > 0
                               THEN append(blob, d.data, d.rest)
                               ELSE [mem |-> blob, s |-> d.data]
                      IN  ParseResult(SliceBytes(r.mem, a.data),
                                      SliceBytes(r.mem, h.data),
                                      Bytes(SliceBytes(r.mem, r.s)),
                                      NoErr)

\* parseSignatureBlob with the skip loop written as  for range 2
parseFieldsSkipsTwo(blob) ==
    LET s1 == readString(blob, Slice(10, Len(blob)))
        s2 == readString(blob, s1.rest)
    IN  IF s1.oob \/ s2.oob THEN ParsePanic
        ELSE IF s2.rest.nil
        THEN ParseFail("truncated signature blob")
        ELSE parseHashAndSignature(blob, s2.rest)

\* the middle of parseSignatureBlob, b = blob[10:]: "Skip past public key,
\* namespace, reserved", three readString calls and then one test of b == nil
parseFields(blob) ==
    LET s1 == readString(blob, Slice(10, Len(blob)))
        s2 == readString(blob, s1.rest)
        s3 == readString(blob, s2.rest)
    IN  IF s1.oob \/ s2.oob \/ s3.oob THEN ParsePanic
        ELSE IF s3.rest.nil
        THEN ParseFail("truncated signature blob")
        ELSE parseHashAndSignature(blob, s3.rest)

\* parseSignatureBlob with the version verified before the magic preamble
parseSignatureBlobVersionFirst(blob) ==
    IF Len(blob) < 10 \/ Uint32(blob, Slice(6, Len(blob))) # [hi |-> 0, lo |-> 1]
    THEN ParseFail("invalid signature version")
    ELSE IF SubSeq(blob, 1, 6) # Magic
    THEN ParseFail("invalid magic preamble")
    ELSE parseFields(blob)

\* parseSignatureBlob parses the SSH signature blob and extracts the algorithm,
\* hash, and signature data.
parseSignatureBlob(blob) ==
    LET b0 == Slice(0, Len(blob))
    IN  IF len(b0) < 6 \/ SubSeq(blob, 1, 6) # Magic
        THEN ParseFail("invalid magic preamble")
        ELSE LET b1 == Slice(6, Len(blob))
             IN  IF len(b1) < 4 \/ Uint32(blob, b1) # [hi |-> 0, lo |-> 1]
                 THEN ParseFail("invalid signature version")
                 ELSE parseFields(blob)

----------------------------------------------------------------------------
(* base64.RawURLEncoding *)

\* the alphabet ABC...XYZabc...xyz0123456789-_
encodeURL ==
    [i \in 0..63 |->
        IF i < 26 THEN 65 + i
        ELSE IF i < 52 THEN 97 + (i - 26)
        ELSE IF i < 62 THEN 48 + (i - 52)
        ELSE IF i = 62 THEN 45 ELSE 95]

\* the decode map: the 6-bit value of an alphabet character, -1 otherwise
decodeMap(c) ==
    IF c >= 65 /\ c <= 90 THEN c - 65
    ELSE IF c >= 97 /\ c <= 122 THEN c - 97 + 26
    ELSE IF c >= 48 /\ c <= 57 THEN c - 48 + 52
    ELSE IF c = 45 THEN 62
    ELSE IF c = 95 THEN 63
    ELSE -1

RECURSIVE EncodeToString(_)
\* base64.RawURLEncoding.EncodeToString: 3 bytes to 4 characters, no padding
EncodeToString(src) ==
    IF Len(src) = 0 THEN <<>>
    ELSE IF Len(src) = 1
    THEN <<encodeURL[src[1] \div 4], encodeURL[(src[1] % 4) * 16]>>
    ELSE IF Len(src) = 2
    THEN <<encodeURL[src[1] \div 4],
           encodeURL[(src[1] % 4) * 16 + (src[2] \div 16)],
           encodeURL[(src[2] % 16) * 4]>>
    ELSE <<encodeURL[src[1] \div 4],
           encodeURL[(src[1] % 4) * 16 + (src[2] \div 16)],
           encodeURL[(src[2] % 16) * 4 + (src[3] \div 64)],
           encodeURL[src[3] % 64]>>
         \o EncodeToString(SubSeq(src, 4, Len(src)))

RECURSIVE decodeQuanta(_)
\* the bytes of a run of alphabet characters whose length is not 1 mod 4;
\* left-over bits of a final short quantum are dropped
decodeQuanta(s) ==
    LET v(i) == decodeMap(s[i])
    IN  IF Len(s) = 0 THEN <<>>
        ELSE IF Len(s) = 2
        THEN <<v(1) * 4 + (v(2) \div 16)>>
        ELSE IF Len(s) = 3
        THEN <<v(1) * 4 + (v(2) \div 16), (v(2) % 16) * 16 + (v(3) \div 4)>>
        ELSE <<v(1) * 4 + (v(2) \div 16),
               (v(2) % 16) * 16 + (v(3) \div 4),
               (v(3) % 4) * 64 + v(4)>>
             \o decodeQuanta(SubSeq(s, 5, Len(s)))

\* base64.RawURLEncoding.DecodeString: '\r' and '\n' are skipped, any other
\* character outside the alphabet (padding included) or a lone trailing
\* character is a CorruptInputError
DecodeString(s) ==
    LET t == SelectSeq(s, LAMBDA c : c # 10 /\ c # 13)
    IN  IF \E i \in 1..Len(t) : decodeMap(t[i]) = -1
        THEN [bytes |-> NilBytes, ok |-> FALSE]
        ELSE IF Len(t) % 4 = 1
        THEN [bytes |-> NilBytes, ok |-> FALSE]
        ELSE [bytes |-> Bytes(decodeQuanta(t)), ok |-> TRUE]

\* string(prefix) for a byte: the UTF-8 encoding of the code point
StringOfByte(c) == IF c < 128 THEN <<c>> ELSE <<192 + (c \div 64), 128 + (c % 64)>>

----------------------------------------------------------------------------
(* The armored input.  encoding/pem is a collaborator: an input is the      *)
(* number of bytes it holds and the block pem.Decode finds in it, if any.   *)

\* the first PEM block of the input: nil, or its Type and Bytes
pemDecode(armored) ==
    IF armored.present
    THEN [nil |-> FALSE, Type |-> armored.Type, Bytes |-> armored.Bytes]
    ELSE [nil |-> TRUE, Type |-> "", Bytes |-> <<>>]

\* the lookup  prefix, ok := algsToPrefix[Algs{SigAlg(sigAlg), HashAlg(hashAlg)}]
lookupPrefix(a2p, sigAlg, hashAlg) ==
    LET k == Algs(sigAlg, hashAlg)
    IN  IF k \in DOMAIN a2p
        THEN [ok |-> TRUE, prefix |-> a2p[k]]
        ELSE [ok |-> FALSE, prefix |-> 0]

----------------------------------------------------------------------------
(* Encode and Decode, statement by statement.  A call is a record: its      *)
(* position pc, its arguments and locals, the value it returns (ret), and   *)
(* ran, the statements it has executed.                                     *)

Ret(token, algs, bytes, err) ==
    [token |-> token, algs |-> algs, bytes |-> bytes, err |-> err]

NoRet == Ret(<<>>, ZeroAlgs, NilBytes, NoErr)

NoArmored == [size |-> 0, present |-> FALSE, Type |-> "", Bytes |-> <<>>]

NoParse == ParseResult(<<>>, <<>>, NilBytes, NoErr)

NoSrc == [kind |-> "none"]

IdleCall ==
    [op |-> "idle", pc |-> "idle", armored |-> NoArmored, minisig |-> <<>>,
     blob |-> <<>>, parsed |-> NoParse, prefix |-> 0, algs |-> ZeroAlgs,
     ret |-> NoRet, ran |-> <<>>, src |-> NoSrc, prev |-> NoRet]

\* Encode's  return "", err
EncodeFail(c, err) ==
    [c EXCEPT !.pc = "done", !.ret = Ret(<<>>, ZeroAlgs, NilBytes, err),
              !.ran = Append(c.ran, c.pc)]

\* Decode's  return Algs{}, nil, err
DecodeFail(c, err) ==
    [c EXCEPT !.pc = "done", !.ret = Ret(<<>>, ZeroAlgs, NilBytes, err),
              !.ran = Append(c.ran, c.pc)]

Goto(c, pc) == [c EXCEPT !.pc = pc, !.ran = Append(c.ran, c.pc)]

\* the size check written with >= 
encodeSizeInclusive(c) ==
    IF c.armored.size >= maxArmoredSize
    THEN EncodeFail(c, Err("armored signature too large"))
    ELSE Goto(c, "pem")

\* if len(armored) > maxArmoredSize
encodeSize(c) ==
    IF c.armored.size > maxArmoredSize
    THEN EncodeFail(c, Err("armored signature too large"))
    ELSE Goto(c, "pem")

\* block, _ := pem.Decode(armored); if block == nil || block.Type != "SSH SIGNATURE"
encodePem(c) ==
    LET block == pemDecode(c.armored)
    IN  IF block.nil \/ block.Type # "SSH SIGNATURE"
        THEN EncodeFail(c, Err("invalid armored SSH signature"))
        ELSE [Goto(c, "parse") EXCEPT !.blob = block.Bytes]

\* sigAlg, hashAlg, sigData, err := parseSignatureBlob(block.Bytes)
encodeParse(c) ==
    LET r == parseSignatureBlob(c.blob)
    IN  IF r.err # NoErr
        THEN [EncodeFail(c, r.err) EXCEPT !.parsed = r]
        ELSE [Goto(c, "lookup") EXCEPT !.parsed = r]

\* prefix, ok := algsToPrefix[...]; if !ok
encodeLookup(c, a2p) ==
    LET l == lookupPrefix(a2p, c.parsed.sigAlg, c.parsed.hashAlg)
    IN  IF ~l.ok
        THEN EncodeFail(c, ErrArgs("unsupported algorithm",
                                   <<c.parsed.sigAlg, c.parsed.hashAlg>>))
        ELSE [Goto(c, "emit") EXCEPT !.prefix = l.prefix]

\* return string(prefix) + base64.RawURLEncoding.EncodeToString(sigData), nil
encodeEmit(c) ==
    [Goto(c, "done") EXCEPT
        !.ret = Ret(StringOfByte(c.prefix) \o EncodeToString(c.parsed.sigData.v),
                    ZeroAlgs, NilBytes, NoErr)]

\* the length check written with < 1
decodeLenAtLeastOne(c) ==
    IF Len(c.minisig) < 1
    THEN DecodeFail(c, Err("sshminisig too short"))
    ELSE Goto(c, "prefix")

\* if len(minisig) < 2
decodeLen(c) ==
    IF Len(c.minisig) < 2
    THEN DecodeFail(c, Err("sshminisig too short"))
    ELSE Goto(c, "prefix")

\* the lookup without the test for the zero value
decodePrefixUnchecked(c, p2a) ==
    [Goto(c, "b64") EXCEPT !.algs = p2a[c.minisig[1]]]

\* algs := PrefixToAlgs[minisig[0]]; if algs.Sig == ""
decodePrefix(c, p2a) ==
    LET algs == p2a[c.minisig[1]]
    IN  IF algs.Sig = <<>>
        THEN DecodeFail(c, ErrArgs("unknown prefix", <<c.minisig[1]>>))
        ELSE [Goto(c, "b64") EXCEPT !.algs = algs]

\* sigBytes, err := base64.RawURLEncoding.DecodeString(minisig[1:]); return
decodeB64(c) ==
    LET d == DecodeString(Tail(c.minisig))
    IN  IF ~d.ok
        THEN DecodeFail(c, Err("failed to decode signature"))
        ELSE [Goto(c, "done") EXCEPT !.ret = Ret(<<>>, c.algs, d.bytes, NoErr)]

\* one statement of the call c, reading the registry it is handed
CallStep(c, a2p, p2a) ==
    CASE c.pc = "size"   -> encodeSize(c)
      [] c.pc = "pem"    -> encodePem(c)
      [] c.pc = "parse"  -> encodeParse(c)
      [] c.pc = "lookup" -> encodeLookup(c, a2p)
      [] c.pc = "emit"   -> encodeEmit(c)
      [] c.pc = "len"    -> decodeLen(c)
      [] c.pc = "prefix" -> decodePrefix(c, p2a)
      [] c.pc = "b64"    -> decodeB64(c)
      [] OTHER           -> c

RECURSIVE RunCall(_, _, _)
RunCall(c, a2p, p2a) ==
    IF c.pc \in {"done", "idle"} THEN c ELSE RunCall(CallStep(c, a2p, p2a), a2p, p2a)

EncodeCall(armored) ==
    [IdleCall EXCEPT !.op = "Encode", !.pc = "size", !.armored = armored]

DecodeCall(minisig) ==
    [IdleCall EXCEPT !.op = "Decode", !.pc = "len", !.minisig = minisig]

\* func Encode(armored []byte) (string, error), run on its own
Encode(armored, a2p) ==
    LET c == RunCall(EncodeCall(armored), a2p, <<>>)
    IN  [token |-> c.ret.token, err |-> c.ret.err]

\* func Decode(minisig string) (Algs, []byte, error), run on its own
Decode(minisig, p2a) ==
    LET c == RunCall(DecodeCall(minisig), <<>>, p2a)
    IN  [algs |-> c.ret.algs, bytes |-> c.ret.bytes, err |-> c.ret.err]

\* the registry once init() has run:  PrefixToAlgs[prefix] = algs  for every entry
InitialisedPrefixToAlgs ==
    [b \in Byte |->
        IF \E k \in DOMAIN algsToPrefixLiteral : algsToPrefixLiteral[k] = b
        THEN CHOOSE k \in DOMAIN algsToPrefixLiteral : algsToPrefixLiteral[k] = b
        ELSE ZeroAlgs]


----------------------------------------------------------------------------
(* Envelopes as ssh-keygen -Y sign writes them, and damaged ones.           *)

\* a uint32, big-endian
PutUint32(n) ==
    <<n \div 16777216, (n \div 65536) % 256, (n \div 256) % 256, n % 256>>

\* an SSH string: uint32 length prefix + data
PutString(str) == PutUint32(Len(str)) \o str

\* the signature blob: algorithm name, signature data, then any trailer
SigBlobOf(f) == PutString(f.sigalg) \o PutString(f.sig) \o f.trailer

\* the payload of an envelope with the fields f; extra follows the signature blob
Build(f) ==
    Magic \o PutUint32(1)
          \o PutString(f.pk) \o PutString(f.ns) \o PutString(f.rsv)
          \o PutString(f.hash) \o PutString(SigBlobOf(f)) \o f.extra

\* the offset of the length prefix of a field of Build(f)
OffsetOf(f, field) ==
    LET pk      == 10
        ns      == pk + 4 + Len(f.pk)
        rsv     == ns + 4 + Len(f.ns)
        hash    == rsv + 4 + Len(f.rsv)
        sigblob == hash + 4 + Len(f.hash)
        sigalg  == sigblob + 4
        sigdata == sigalg + 4 + Len(f.sigalg)
    IN  CASE field = "pk"      -> pk
          [] field = "ns"      -> ns
          [] field = "rsv"     -> rsv
          [] field = "hash"    -> hash
          [] field = "sigblob" -> sigblob
          [] field = "sigalg"  -> sigalg
          [] field = "sigdata" -> sigdata

LengthFields == {"pk", "ns", "rsv", "hash", "sigblob", "sigalg", "sigdata"}
SkippedFields == {"pk", "ns", "rsv"}
DamagePoints == {"magic", "version"} \cup LengthFields

\* payload with one point damaged: a wrong magic byte, version 2, or a length
\* prefix whose top byte is 0xff
DamageOne(payload, f, d) ==
    CASE d = "magic"   -> [payload EXCEPT ![1] = 88]
      [] d = "version" -> [payload EXCEPT ![10] = 2]
      [] OTHER         -> [payload EXCEPT ![OffsetOf(f, d) + 1] = 255]

RECURSIVE Damage(_, _, _)
Damage(payload, f, dmg) ==
    IF dmg = {} THEN payload
    ELSE LET d == CHOOSE x \in dmg : TRUE
         IN  Damage(DamageOne(payload, f, d), f, dmg \ {d})

\* the payload a source describes: built, damaged, then cut to its first cut bytes
PayloadOf(src) ==
    LET full == Damage(Build(src.f), src.f, src.dmg)
    IN  IF src.cut < 0 THEN full ELSE SubSeq(full, 1, src.cut)

\* bytes of the smallest armor around n payload bytes with the label Type
PemLen(typeLen, n) ==
    (11 + typeLen + 6) + 4 * ((n + 2) \div 3) + 1 + (9 + typeLen + 6)

\* sizes of an input: "min" the bare block, else the block padded to that many bytes
SizeOf(src) ==
    LET min == IF src.present THEN PemLen(13, Len(PayloadOf(src))) ELSE 17
    IN  IF src.size = 0 THEN min ELSE src.size

ArmoredOf(src) ==
    [size |-> SizeOf(src), present |-> src.present, Type |-> src.type,
     Bytes |-> IF src.present THEN PayloadOf(src) ELSE <<>>]

Src(f, dmg, cut, present, type, size) ==
    [kind |-> "env", f |-> f, dmg |-> dmg, cut |-> cut,
     present |-> present, type |-> type, size |-> size]

\* an undamaged, whole, well-armored envelope
ValidSrc(f) == Src(f, {}, -1, TRUE, "SSH SIGNATURE", 0)

RECURSIVE SeqsUpTo(_, _)
\* the sequences over alphabet of length at most n
SeqsUpTo(alphabet, n) ==
    IF n = 0 THEN {<<>>}
    ELSE LET shorter == SeqsUpTo(alphabet, n - 1)
         IN  shorter \cup {Append(q, a) : q \in shorter, a \in alphabet}

SkipVals == {[i \in 1..n |-> 7] : n \in 0..MaxSkipLen}
SigSeqs == SeqsUpTo({3, 251}, MaxSigLen)
\* none, or the flags byte and counter of a security-key signature
Trailers == {<<>>, <<1, 0, 0, 0, 5>>}
Extras == {<<>>, <<9>>}

\* "ssh-dss"
SigDSS == <<115, 115, 104, 45, 100, 115, 115>>

AllSigAlgs ==
    {SigEd25519, SigRSA256, SigRSA512, SigECDSAP256, SigECDSAP384, SigECDSAP521,
     SigSKEd25519, SigSKECDSA, SigLegacyRSA, SigDSS}

Fields(pk, ns, rsv, hash, sigalg, sig, trailer, extra) ==
    [pk |-> pk, ns |-> ns, rsv |-> rsv, hash |-> hash, sigalg |-> sigalg,
     sig |-> sig, trailer |-> trailer, extra |-> extra]

\* the envelopes the parser is exercised on
ParseFields ==
    {Fields(pk, ns, rsv, HashSHA512, SigLegacyRSA, sig, tr, ex) :
        pk \in SkipVals, ns \in SkipVals, rsv \in SkipVals,
        sig \in SigSeqs, tr \in Trailers, ex \in Extras}

\* no generated payload is longer than this
PayloadLimit == 10 + 3 * (4 + MaxSkipLen) + (4 + 6) + 4 + (4 + 7) + (4 + MaxSigLen) + 5 + 1

\* whole envelopes
WholeSrcs == {ValidSrc(f) : f \in ParseFields}

\* every strict prefix of every payload that ends with its signature blob
CutSrcs ==
    {s \in {Src(f, {}, k, TRUE, "SSH SIGNATURE", 0) :
               f \in {g \in ParseFields : g.extra = <<>>}, k \in 0..PayloadLimit} :
        s.cut < Len(Build(s.f))}

\* envelopes with one length prefix damaged
DamagedSrcs ==
    {Src(f, {d}, -1, TRUE, "SSH SIGNATURE", 0) :
        f \in {g \in ParseFields : g.extra = <<>>}, d \in LengthFields}

ParseSrcs == <<WholeSrcs, CutSrcs, DamagedSrcs>>

\* the same envelope with empty skipped fields and nothing after the signature blob
Canonical(f) == [f EXCEPT !.pk = <<>>, !.ns = <<>>, !.rsv = <<>>, !.extra = <<>>]

\* the envelopes Encode is exercised on: every pair of names, every signature
RoundTripSrcs ==
    {ValidSrc(Fields(<<7>>, <<>>, <<>>, hash, sigalg, sig, tr, <<>>)) :
        hash \in {HashSHA256, HashSHA512}, sigalg \in AllSigAlgs,
        sig \in SigSeqs, tr \in Trailers}

\* inputs that fail at any combination of stages
FaultySrcs ==
    {Src(Fields(<<7>>, <<>>, <<>>, hash, SigEd25519, <<3>>, <<>>, <<>>),
         dmg, -1, present, type, size) :
        hash \in {HashSHA256, HashSHA512}, dmg \in SUBSET DamagePoints,
        present \in BOOLEAN, type \in {"SSH SIGNATURE", "PGP SIGNATURE"},
        size \in {0, maxArmoredSize, maxArmoredSize + 1}}

\* tokens: any first byte, then a few characters: 'A', '_', '=', '\n'
Tokens ==
    << {<<>>},
       {<<b>> \o tail : b \in Byte, tail \in SeqsUpTo({65, 95, 61, 10}, MaxTokenLen - 1)} >>

\* the few inputs the concurrent callers use
SharedSrcs ==
    { ValidSrc(Fields(<<>>, <<>>, <<>>, HashSHA512, SigEd25519, <<3>>, <<>>, <<>>)),
      ValidSrc(Fields(<<>>, <<>>, <<>>, HashSHA256, SigLegacyRSA, <<3, 251>>, <<>>, <<>>)),
      ValidSrc(Fields(<<>>, <<>>, <<>>, HashSHA256, SigEd25519, <<3>>, <<>>, <<>>)),
      Src(Fields(<<>>, <<>>, <<>>, HashSHA512, SigEd25519, <<3>>, <<>>, <<>>),
          {}, 20, TRUE, "SSH SIGNATURE", 0) }

\* "eAw", "5A_s", "xAAAA", "e"
SharedTokens ==
    { <<101, 65, 119>>, <<53, 65, 95, 115>>, <<120, 65, 65, 65, 65>>, <<101>> }

----------------------------------------------------------------------------
(* The state machine *)

TypeOK ==
    /\ pending \subseteq DOMAIN algsToPrefix
    /\ DOMAIN PrefixToAlgs = Byte
    /\ \A t \in DOMAIN thr : thr[t].pc \in
         {"idle", "size", "pem", "parse", "lookup", "emit", "len", "prefix", "b64", "done"}

\* package initialisation: the map literal, the zeroed array, init() not yet run
InitRegistry ==
    /\ algsToPrefix = algsToPrefixLiteral
    /\ PrefixToAlgs = [b \in Byte |-> ZeroAlgs]
    /\ pending = DOMAIN algsToPrefixLiteral

\* the goroutines
Threads == 1..NumThreads

Init ==
    /\ InitRegistry
    /\ thr = [t \in Threads |-> IdleCall]

InitSeq ==
    /\ InitRegistry
    /\ thr = [t \in {1} |-> IdleCall]

\* one iteration of  for algs, prefix := range algsToPrefix { PrefixToAlgs[prefix] = algs }
InitStep(algs) ==
    /\ algs \in pending
    /\ PrefixToAlgs' = [PrefixToAlgs EXCEPT ![algsToPrefix[algs]] = algs]
    /\ pending' = pending \ {algs}
    /\ UNCHANGED <<algsToPrefix, thr>>

InitLoop == \E algs \in pending : InitStep(algs)

\* a caller hands an envelope of one of the families srcs to Encode
StartEncode(t, srcs) ==
    /\ pending = {}
    /\ thr[t].pc = "idle"
    /\ \E i \in DOMAIN srcs : \E src \in srcs[i] :
         thr' = [thr EXCEPT ![t] = [EncodeCall(ArmoredOf(src)) EXCEPT !.src = src]]
    /\ UNCHANGED <<algsToPrefix, PrefixToAlgs, pending>>

\* a caller hands a token of one of the families tokens to Decode
StartDecode(t, tokens) ==
    /\ pending = {}
    /\ thr[t].pc = "idle"
    /\ \E i \in DOMAIN tokens : \E minisig \in tokens[i] :
         thr' = [thr EXCEPT ![t] = DecodeCall(minisig)]
    /\ UNCHANGED <<algsToPrefix, PrefixToAlgs, pending>>

\* a lookup that stores the zero prefix under a key it does not find
RegistryAfterLookupInserts(c, a2p, p2a) ==
    LET k == Algs(c.parsed.sigAlg, c.parsed.hashAlg)
    IN  IF c.pc = "lookup" /\ k \notin DOMAIN a2p
        THEN [a2p |-> (k :> 0) @@ a2p, p2a |-> p2a]
        ELSE [a2p |-> a2p, p2a |-> p2a]

\* the registry after the statement at pc of call c; neither Encode nor Decode
\* assigns to algsToPrefix or PrefixToAlgs
RegistryAfter(c, a2p, p2a) == [a2p |-> a2p, p2a |-> p2a]

\* the goroutine t executes the statement it is at
Statement(t) ==
    /\ thr' = [thr EXCEPT ![t] = CallStep(thr[t], algsToPrefix, PrefixToAlgs)]
    /\ algsToPrefix' = RegistryAfter(thr[t], algsToPrefix, PrefixToAlgs).a2p
    /\ PrefixToAlgs' = RegistryAfter(thr[t], algsToPrefix, PrefixToAlgs).p2a
    /\ UNCHANGED pending

\* Encode: the size ceiling
EncodeSize(t) ==
    /\ thr[t].pc = "size"
    /\ Statement(t)

\* Encode: pem.Decode and the block type
EncodePem(t) ==
    /\ thr[t].pc = "pem"
    /\ Statement(t)

\* Encode: parseSignatureBlob
EncodeParse(t) ==
    /\ thr[t].pc = "parse"
    /\ Statement(t)

\* Encode: the lookup in algsToPrefix
EncodeLookup(t) ==
    /\ thr[t].pc = "lookup"
    /\ Statement(t)

\* Encode: the token
EncodeEmit(t) ==
    /\ thr[t].pc = "emit"
    /\ Statement(t)

\* Decode: the length of the token
DecodeLen(t) ==
    /\ thr[t].pc = "len"
    /\ Statement(t)

\* Decode: the lookup in PrefixToAlgs
DecodePrefix(t) ==
    /\ thr[t].pc = "prefix"
    /\ Statement(t)

\* Decode: the base-64 payload
DecodeB64(t) ==
    /\ thr[t].pc = "b64"
    /\ Statement(t)

\* the call has returned and the goroutine is free for another
Return(t) ==
    /\ thr[t].pc = "done"
    /\ thr' = [thr EXCEPT ![t] = IdleCall]
    /\ UNCHANGED <<algsToPrefix, PrefixToAlgs, pending>>

\* the caller decodes the token Encode has just returned (TestEncode's round trip)
DecodeReturned(t) ==
    /\ thr[t].pc = "done"
    /\ thr[t].op = "Encode"
    /\ thr[t].ret.err = NoErr
    /\ thr' = [thr EXCEPT ![t] =
                 [DecodeCall(thr[t].ret.token) EXCEPT !.src = thr[t].src,
                                                      !.prev = thr[t].ret]]
    /\ UNCHANGED <<algsToPrefix, PrefixToAlgs, pending>>

\* the caller encodes the same signature again, in an envelope whose skipped
\* fields are empty and that ends with the signature blob
EncodeCanonical(t) ==
    /\ thr[t].pc = "done"
    /\ thr[t].op = "Encode"
    /\ thr[t].src.dmg = {} /\ thr[t].src.cut < 0
    /\ thr[t].src.f # Canonical(thr[t].src.f)
    /\ LET src == ValidSrc(Canonical(thr[t].src.f))
       IN  thr' = [thr EXCEPT ![t] =
                 [EncodeCall(ArmoredOf(src)) EXCEPT
                     !.src = thr[t].src,
                     !.prev = Ret(thr[t].ret.token,
                                  Algs(thr[t].parsed.sigAlg, thr[t].parsed.hashAlg),
                                  thr[t].parsed.sigData, thr[t].ret.err)]]
    /\ UNCHANGED <<algsToPrefix, PrefixToAlgs, pending>>

\* concurrent callers
Next ==
    \/ InitLoop
    \/ \E t \in Threads : StartEncode(t, <<SharedSrcs>>)
    \/ \E t \in Threads : StartDecode(t, <<SharedTokens>>)
    \/ \E t \in Threads : EncodeSize(t)
    \/ \E t \in Threads : EncodePem(t)
    \/ \E t \in Threads : EncodeParse(t)
    \/ \E t \in Threads : EncodeLookup(t)
    \/ \E t \in Threads : EncodeEmit(t)
    \/ \E t \in Threads : DecodeLen(t)
    \/ \E t \in Threads : DecodePrefix(t)
    \/ \E t \in Threads : DecodeB64(t)
    \/ \E t \in Threads : Return(t)

Spec == Init /\ [][Next]_vars

\* one caller: Encode on every envelope and faulty input, Decode on every token
\* and on every token Encode returns
NextCodec ==
    \/ InitLoop
    \/ StartEncode(1, <<RoundTripSrcs, FaultySrcs>>)
    \/ StartDecode(1, Tokens)
    \/ EncodeSize(1)
    \/ EncodePem(1)
    \/ EncodeParse(1)
    \/ EncodeLookup(1)
    \/ EncodeEmit(1)
    \/ DecodeLen(1)
    \/ DecodePrefix(1)
    \/ DecodeB64(1)
    \/ DecodeReturned(1)

SpecCodec == InitSeq /\ [][NextCodec]_vars

\* one caller: Encode on whole, cut and damaged envelopes of every layout
NextParse ==
    \/ InitLoop
    \/ StartEncode(1, ParseSrcs)
    \/ EncodeSize(1)
    \/ EncodePem(1)
    \/ EncodeParse(1)
    \/ EncodeLookup(1)
    \/ EncodeEmit(1)
    \/ EncodeCanonical(1)

SpecParse == InitSeq /\ [][NextParse]_vars


----------------------------------------------------------------------------
(* Properties *)

\* the ten prefix bytes of the table: e r s c d p f g 2 5
TableBytes == {101, 114, 115, 99, 100, 112, 102, 103, 50, 53}

\* the ten pairs of the table
SupportedPairs ==
    { Algs(SigEd25519, HashSHA512), Algs(SigRSA256, HashSHA256),
      Algs(SigRSA512, HashSHA512), Algs(SigECDSAP256, HashSHA512),
      Algs(SigECDSAP384, HashSHA512), Algs(SigECDSAP521, HashSHA512),
      Algs(SigSKEd25519, HashSHA512), Algs(SigSKECDSA, HashSHA256),
      Algs(SigLegacyRSA, HashSHA256), Algs(SigLegacyRSA, HashSHA512) }

\* the call was started on the envelope its src describes
OnSrc(c) == c.src.kind = "env" /\ c.prev = NoRet

\* the call has executed the statement pc
HasRun(c, pc) == \E i \in DOMAIN c.ran : c.ran[i] = pc

\* src describes a whole, undamaged, well-armored envelope within the size ceiling
IsValid(src) ==
    /\ src.dmg = {} /\ src.cut < 0
    /\ src.present /\ src.type = "SSH SIGNATURE"
    /\ SizeOf(src) <= maxArmoredSize

\* src describes a strict prefix of a payload that ends with its signature blob
IsStrictPrefix(src) ==
    /\ src.dmg = {} /\ src.f.extra = <<>>
    /\ src.cut >= 0 /\ src.cut < Len(Build(src.f))

\* C1: for each of the ten pairs and every signature, Encode of a valid envelope
\* succeeds and Decode of the token it returns succeeds with that pair and those
\* signature bytes.
C1_RoundTrip ==
    \A t \in DOMAIN thr :
        LET c == thr[t]
        IN  (c.src.kind = "env" /\ IsValid(c.src)
               /\ Algs(c.src.f.sigalg, c.src.f.hash) \in SupportedPairs)
            => /\ (c.op = "Encode" /\ c.pc = "done") => c.ret.err = NoErr
               /\ (c.op = "Decode" /\ c.pc = "done") =>
                     /\ c.ret.err = NoErr
                     /\ c.ret.algs = Algs(c.src.f.sigalg, c.src.f.hash)
                     /\ c.ret.bytes = Bytes(c.src.f.sig \o c.src.f.trailer)

\* the error parseSignatureBlob gives for the first cut bytes of Build(f)
CutError(f, cut) ==
    IF cut < 6 THEN "invalid magic preamble"
    ELSE IF cut < 10 THEN "invalid signature version"
    ELSE IF cut < OffsetOf(f, "hash") THEN "truncated signature blob"
    ELSE "invalid signature blob"

\* C2 as stated: every strict prefix of a valid payload makes parseSignatureBlob
\* return "truncated signature blob", whichever field the cut falls in.
C2_TruncationError ==
    \A t \in DOMAIN thr :
        LET c == thr[t]
        IN  (OnSrc(c) /\ IsStrictPrefix(c.src) /\ HasRun(c, "parse"))
            => c.parsed.err = Err("truncated signature blob")

\* C2 amended: every strict prefix of a valid payload makes parseSignatureBlob
\* return an error without indexing outside the buffer: the magic error for a cut
\* in the magic marker, the version error for a cut in the version, "truncated
\* signature blob" for a cut in the three skipped fields and "invalid signature
\* blob" for a cut in the hash name or the signature blob.
C2_TruncationFails ==
    \A t \in DOMAIN thr :
        LET c == thr[t]
        IN  (OnSrc(c) /\ IsStrictPrefix(c.src) /\ HasRun(c, "parse"))
            => /\ c.parsed = ParseFail(CutError(c.src.f, c.src.cut))
               /\ c.pc = "done"
               /\ c.ret = Ret(<<>>, ZeroAlgs, NilBytes, c.parsed.err)

\* a payload cut inside its signature data has been parsed
C2_Witness ==
    \E t \in DOMAIN thr :
        LET c == thr[t]
        IN  /\ OnSrc(c) /\ IsStrictPrefix(c.src) /\ HasRun(c, "parse")
            /\ c.src.f.sig # <<>>
            /\ c.src.cut > OffsetOf(c.src.f, "sigdata") + 4
            /\ c.parsed.err = Err("invalid signature blob")

\* C3: an input of more than 8192 bytes fails with the size error before the armor
\* is unwrapped or the blob parsed, whatever it holds; an input of 8192 bytes or
\* fewer never fails with the size error.
C3_SizeCeiling ==
    \A t \in DOMAIN thr :
        LET c == thr[t]
        IN  (c.op = "Encode" /\ OnSrc(c))
            => /\ c.armored.size > 8192 =>
                    /\ c.pc \in {"size", "done"}
                    /\ c.pc = "done" =>
                         /\ c.ret = Ret(<<>>, ZeroAlgs, NilBytes,
                                        Err("armored signature too large"))
                         /\ c.ran = <<"size">>
                         /\ c.blob = <<>> /\ c.parsed = NoParse
               /\ (c.armored.size <= 8192 /\ c.pc = "done") =>
                    c.ret.err # Err("armored signature too large")

\* a well-formed envelope padded to 8193 bytes has been rejected
C3_Witness ==
    \E t \in DOMAIN thr :
        LET c == thr[t]
        IN  /\ c.op = "Encode" /\ OnSrc(c) /\ c.pc = "done"
            /\ c.armored.size = 8193
            /\ c.src.dmg = {} /\ c.src.present /\ c.src.type = "SSH SIGNATURE"
            /\ c.ret.err = Err("armored signature too large")

\* C4: once init() has run, no two pairs of algsToPrefix share a byte, the two
\* directions of the registry are inverses of each other, and ssh-rsa maps to '2'
\* with sha256 and to '5' with sha512, each byte mapping back to its hash.
C4_RegistryBijective ==
    pending = {} =>
        /\ Cardinality(DOMAIN algsToPrefix) = 10
        /\ \A p, q \in DOMAIN algsToPrefix :
              algsToPrefix[p] = algsToPrefix[q] => p = q
        /\ \A p \in DOMAIN algsToPrefix : PrefixToAlgs[algsToPrefix[p]] = p
        /\ \A b \in Byte :
              PrefixToAlgs[b] # ZeroAlgs =>
                 /\ PrefixToAlgs[b] \in DOMAIN algsToPrefix
                 /\ algsToPrefix[PrefixToAlgs[b]] = b
        /\ algsToPrefix[Algs(SigLegacyRSA, HashSHA256)] = 50
        /\ algsToPrefix[Algs(SigLegacyRSA, HashSHA512)] = 53
        /\ PrefixToAlgs[50] = Algs(SigLegacyRSA, HashSHA256)
        /\ PrefixToAlgs[53] = Algs(SigLegacyRSA, HashSHA512)

\* init() has run and '5' is in the reverse table
C4_Witness ==
    /\ pending = {}
    /\ PrefixToAlgs[53].Hash = HashSHA512
    /\ PrefixToAlgs[50].Hash = HashSHA256

\* C5: every byte outside the ten table bytes, 'z' included, maps to the zero
\* Algs, and Decode of a token of 2 or more characters that starts with such a
\* byte fails with "unknown prefix" and returns the zero Algs and nil bytes.
C5_UnknownPrefix ==
    /\ \A b \in Byte \ TableBytes : PrefixToAlgs[b] = ZeroAlgs
    /\ \A t \in DOMAIN thr :
        LET c == thr[t]
        IN  (c.op = "Decode" /\ c.pc = "done" /\ Len(c.minisig) >= 2
               /\ c.minisig[1] \notin TableBytes)
            => c.ret = Ret(<<>>, ZeroAlgs, NilBytes,
                           ErrArgs("unknown prefix", <<c.minisig[1]>>))

\* Decode has rejected a token that starts with the reserved byte 'z'
C5_Witness ==
    \E t \in DOMAIN thr :
        LET c == thr[t]
        IN  /\ c.op = "Decode" /\ c.pc = "done" /\ pending = {}
            /\ Len(c.minisig) >= 2 /\ c.minisig[1] = 122
            /\ c.ret.err.msg = "unknown prefix"

\* C6: Decode fails with "too short" exactly when the token has fewer than 2
\* characters, before the prefix lookup and the base-64 decoding; a longer token
\* fails with unknown prefix or a decode failure, or succeeds.
C6_TooShort ==
    \A t \in DOMAIN thr :
        LET c == thr[t]
        IN  (c.op = "Decode" /\ c.pc = "done")
            => /\ c.ret.err = Err("sshminisig too short") <=> Len(c.minisig) < 2
               /\ Len(c.minisig) < 2 =>
                    /\ c.ran = <<"len">>
                    /\ c.ret.algs = ZeroAlgs /\ c.ret.bytes = NilBytes
               /\ Len(c.minisig) >= 2 =>
                    c.ret.err.msg \in {"unknown prefix", "failed to decode signature", "nil"}

\* Decode has rejected a 1-character token whose byte is not in the table
C6_Witness ==
    \E t \in DOMAIN thr :
        LET c == thr[t]
        IN  /\ c.op = "Decode" /\ c.pc = "done"
            /\ Len(c.minisig) = 1 /\ c.minisig[1] \notin TableBytes
            /\ c.ret.err = Err("sshminisig too short")

\* the call c started afresh
Restarted(c) ==
    IF c.op = "Encode" THEN EncodeCall(c.armored) ELSE DecodeCall(c.minisig)

\* C7: Encode and Decode never modify the registry: under every interleaving of
\* concurrent calls it keeps the value initialisation gave it, and every call
\* returns what it returns when run alone.
C7_RegistryReadOnly ==
    /\ algsToPrefix = algsToPrefixLiteral
    /\ pending = {} => PrefixToAlgs = InitialisedPrefixToAlgs
    /\ \A t \in DOMAIN thr :
         thr[t].pc = "done" =>
            thr[t].ret = RunCall(Restarted(thr[t]), algsToPrefixLiteral,
                                 InitialisedPrefixToAlgs).ret

\* an Encode has failed its lookup while a Decode of another goroutine is past its own
C7_Witness ==
    \E t, u \in DOMAIN thr :
        /\ t # u
        /\ thr[t].op = "Encode" /\ thr[t].pc = "done"
        /\ thr[t].ret.err.msg = "unsupported algorithm"
        /\ thr[u].op = "Decode" /\ thr[u].pc = "b64"

\* the error of the first stage of Encode that the input described by src fails
FirstFailure(src) ==
    LET f == src.f
        cutBelow(n) == src.cut >= 0 /\ src.cut < n
    IN  IF SizeOf(src) > 8192
        THEN Err("armored signature too large")
        ELSE IF ~src.present \/ src.type # "SSH SIGNATURE"
        THEN Err("invalid armored SSH signature")
        ELSE IF "magic" \in src.dmg \/ cutBelow(6)
        THEN Err("invalid magic preamble")
        ELSE IF "version" \in src.dmg \/ cutBelow(10)
        THEN Err("invalid signature version")
        ELSE IF src.dmg \cap SkippedFields # {} \/ cutBelow(OffsetOf(f, "hash"))
        THEN Err("truncated signature blob")
        ELSE IF src.dmg \cap (LengthFields \ SkippedFields) # {}
                \/ cutBelow(Len(Build(f)) - Len(f.extra))
        THEN Err("invalid signature blob")
        ELSE IF Algs(f.sigalg, f.hash) \notin SupportedPairs
        THEN ErrArgs("unsupported algorithm", <<f.sigalg, f.hash>>)
        ELSE NoErr

\* C8: Encode returns the error of the earliest stage that fails, in the order
\* size, armor, magic, version, truncated field, missing signature data,
\* unsupported pair; "unsupported algorithm" names both strings and comes only
\* after the parser has succeeded; a failing call returns the empty token.
C8_FirstFailure ==
    \A t \in DOMAIN thr :
        LET c == thr[t]
        IN  (c.op = "Encode" /\ c.pc = "done" /\ OnSrc(c))
            => /\ c.ret.err = FirstFailure(c.src)
               /\ c.ret.err # NoErr => c.ret.token = <<>>
               /\ c.ret.err.msg = "unsupported algorithm" =>
                    /\ HasRun(c, "parse") /\ c.parsed.err = NoErr
                    /\ c.ret.err.args = <<c.parsed.sigAlg, c.parsed.hashAlg>>

\* Encode has reported the magic marker of an input that also has a wrong
\* version, a bad skipped field, bad signature data and an unsupported pair
C8_Witness ==
    \E t \in DOMAIN thr :
        LET c == thr[t]
        IN  /\ c.op = "Encode" /\ c.pc = "done" /\ OnSrc(c)
            /\ {"magic", "version", "ns", "sigdata"} \subseteq c.src.dmg
            /\ Algs(c.src.f.sigalg, c.src.f.hash) \notin SupportedPairs
            /\ c.ret.err = Err("invalid magic preamble")

\* C9: when parsing succeeds the signature bytes are the signature-data string
\* followed by whatever remains of the signature blob, and the signature-data
\* string alone when nothing remains.
C9_TrailerPreserved ==
    \A t \in DOMAIN thr :
        LET c == thr[t]
        IN  (c.op = "Encode" /\ OnSrc(c) /\ IsValid(c.src) /\ HasRun(c, "parse"))
            => /\ c.parsed.err = NoErr
               /\ c.parsed.sigAlg = c.src.f.sigalg
               /\ c.parsed.hashAlg = c.src.f.hash
               /\ c.parsed.sigData = Bytes(c.src.f.sig \o c.src.f.trailer)
               /\ c.src.f.trailer = <<>> => c.parsed.sigData = Bytes(c.src.f.sig)

\* a signature with a trailer, in a buffer that goes on after the blob, has been parsed
C9_Witness ==
    \E t \in DOMAIN thr :
        LET c == thr[t]
        IN  /\ c.op = "Encode" /\ OnSrc(c) /\ IsValid(c.src) /\ HasRun(c, "parse")
            /\ c.src.f.sig # <<>> /\ c.src.f.trailer # <<>> /\ c.src.f.extra # <<>>
            /\ c.parsed.sigData.v = c.src.f.sig \o c.src.f.trailer

\* a read of one of the three skipped fields of the payload of src fails
SkippedReadFails(src) ==
    /\ ~("magic" \in src.dmg) /\ ~("version" \in src.dmg)
    /\ \/ src.dmg \cap SkippedFields # {}
       \/ src.cut >= 10 /\ src.cut < OffsetOf(src.f, "hash")

\* C10: two payloads that parse and differ only in the skipped fields or in what
\* follows the signature blob give the same names, signature bytes and token;
\* a failed read of any of the three skipped fields gives the "truncated" error.
C10_SkippedFieldsIgnored ==
    \A t \in DOMAIN thr :
        LET c == thr[t]
        IN  /\ (c.op = "Encode" /\ c.pc = "done" /\ c.prev # NoRet)
               => /\ c.prev.err = NoErr /\ c.ret.err = NoErr
                  /\ Algs(c.parsed.sigAlg, c.parsed.hashAlg) = c.prev.algs
                  /\ c.parsed.sigData = c.prev.bytes
                  /\ c.ret.token = c.prev.token
            /\ (c.op = "Encode" /\ OnSrc(c) /\ HasRun(c, "parse")
                  /\ SkippedReadFails(c.src))
               => c.parsed = ParseFail("truncated signature blob")

\* an envelope with every skipped field filled and bytes after the blob has been
\* encoded a second time without them
C10_Witness ==
    \E t \in DOMAIN thr :
        LET c == thr[t]
        IN  /\ c.op = "Encode" /\ c.pc = "done" /\ c.prev # NoRet
            /\ c.src.f.pk # <<>> /\ c.src.f.ns # <<>> /\ c.src.f.rsv # <<>>
            /\ c.src.f.extra # <<>> /\ c.src.f.trailer # <<>>
            /\ c.ret.err = NoErr

=============================================================================
